---- MODULE Spec2Model ----
(***************************************************************************)
(* Model of app.py, the YouTube to MP3 converter: the filename sanitizer,  *)
(* the URL validator, the error classifier of download_youtube_audio and   *)
(* the request that one press of the convert button runs in main.          *)
(*                                                                         *)
(* A Python str is a sequence of one-character strings, so that `in`,      *)
(* re.search, re.sub, lower, strip and slicing are computed character by   *)
(* character.                                                              *)
(***************************************************************************)
EXTENDS Naturals, Sequences, FiniteSets

VARIABLES
    \* whether the function under study has been applied to its input
    applied,
    \* clean_filename applied to an input
    filename, cleaned,
    \* validate_youtube_url applied to an input
    parts, url, validation,
    \* the except block of download_youtube_audio applied to an error text
    eparts, error_msg, classified,
    \* the requests of main: per session
    pc, youtube_url, shown, calls, caught, video_title, clean_title,
    mp3_exists, result, audio_bytes, reqid,
    \* the environment the sessions share
    files, dir_made, moviepy, nreq

fnvars == <<applied, filename, cleaned, parts, url, validation, eparts, error_msg, classified>>
reqvars == <<pc, youtube_url, shown, calls, caught, video_title, clean_title,
             mp3_exists, result, audio_bytes, reqid, files, dir_made, moviepy, nreq>>
vars == <<applied, filename, cleaned, parts, url, validation, eparts, error_msg,
          classified, pc, youtube_url, shown, calls, caught, video_title,
          clean_title, mp3_exists, result, audio_bytes, reqid, files, dir_made,
          moviepy, nreq>>

----
\* Bounds of the model

\* longest filename given to clean_filename
MaxLen == 5
\* most fragments a URL given to validate_youtube_url is made of
MaxParts == 3
\* most fragments an error text given to the classifier is made of
MaxErrParts == 2
\* sessions using the app at the same time
NumSessions == 2
\* presses of the convert button, over all sessions
MaxRequests == 2

----
\* Characters and strings

UpperLetters ==
    <<"A", "B", "C", "D", "E", "F", "G", "H", "I", "J", "K", "L", "M",
      "N", "O", "P", "Q", "R", "S", "T", "U", "V", "W", "X", "Y", "Z">>

LowerLetters ==
    <<"a", "b", "c", "d", "e", "f", "g", "h", "i", "j", "k", "l", "m",
      "n", "o", "p", "q", "r", "s", "t", "u", "v", "w", "x", "y", "z">>

Digits == {"0", "1", "2", "3", "4", "5", "6", "7", "8", "9"}

Range(f) == {f[i] : i \in DOMAIN f}

WordChars == Range(UpperLetters) \cup Range(LowerLetters) \cup Digits \cup {"_"}

\* \w of Python's re on str
IsWord(c) == c \in WordChars

\* \s of Python's re on str
IsSpace(c) == c \in {" ", "\t", "\n", "\r", "\f"}

ToLower == [c \in Range(UpperLetters) |-> LowerLetters[CHOOSE k \in 1..26 : UpperLetters[k] = c]]

\* str.lower on one character
LowerChar(c) == IF c \in DOMAIN ToLower THEN ToLower[c] ELSE c

\* str.lower
Lower(s) == [i \in 1..Len(s) |-> LowerChar(s[i])]

\* p in s
Contains(s, p) ==
    \E i \in 1..(Len(s) + 1 - Len(p)) : \A j \in 1..Len(p) : s[i + j - 1] = p[j]

\* s[:n]
Take(s, n) == IF Len(s) <= n THEN s ELSE SubSeq(s, 1, n)

RECURSIVE Concat(_)
Concat(ss) == IF ss = <<>> THEN <<>> ELSE Head(ss) \o Concat(Tail(ss))

\* c * n
Rep(c, n) == [i \in 1..n |-> c]

----
\* clean_filename

\* re.sub(r'[^\w\s-]', '', s): characters outside the class are dropped
RECURSIVE SubSpecial(_)
SubSpecial(s) ==
    IF s = <<>> THEN <<>>
    ELSE IF IsWord(Head(s)) \/ IsSpace(Head(s)) \/ Head(s) = "-"
         THEN <<Head(s)>> \o SubSpecial(Tail(s))
         ELSE SubSpecial(Tail(s))

\* re.sub(r'\s+', ' ', s): each maximal run of whitespace becomes one space
RECURSIVE SubSpaces(_)
SubSpaces(s) ==
    IF s = <<>> THEN <<>>
    ELSE IF IsSpace(Head(s))
         THEN IF Len(s) > 1 /\ IsSpace(s[2])
              THEN SubSpaces(Tail(s))
              ELSE <<" ">> \o SubSpaces(Tail(s))
         ELSE <<Head(s)>> \o SubSpaces(Tail(s))

RECURSIVE LStrip(_)
LStrip(s) == IF s # <<>> /\ IsSpace(Head(s)) THEN LStrip(Tail(s)) ELSE s

RECURSIVE RStrip(_)
RStrip(s) ==
    IF s # <<>> /\ IsSpace(s[Len(s)]) THEN RStrip(SubSeq(s, 1, Len(s) - 1)) ELSE s

\* str.strip
Strip(s) == RStrip(LStrip(s))

\* a slip: the whitespace is stripped before the special characters are removed
clean_filename_strip_first(s) == SubSpaces(SubSpecial(Strip(s)))

\* a slip: the trailing strip() is forgotten
clean_filename_no_strip(s) == SubSpaces(SubSpecial(s))

clean_filename(s) == Strip(SubSpaces(SubSpecial(s)))

----
\* validate_youtube_url

S_youtube_com == <<"y", "o", "u", "t", "u", "b", "e", ".", "c", "o", "m">>
S_youtu_be == <<"y", "o", "u", "t", "u", ".", "b", "e">>

\* the literal prefixes of the four patterns; each is followed by [\w-]+
P_watch == <<"y", "o", "u", "t", "u", "b", "e", ".", "c", "o", "m", "/", "w", "a", "t", "c", "h", "?", "v", "=">>
P_short == <<"y", "o", "u", "t", "u", ".", "b", "e", "/">>
P_embed == <<"y", "o", "u", "t", "u", "b", "e", ".", "c", "o", "m", "/", "e", "m", "b", "e", "d", "/">>
P_v == <<"y", "o", "u", "t", "u", "b", "e", ".", "c", "o", "m", "/", "v", "/">>

patterns == <<P_watch, P_short, P_embed, P_v>>

\* [\w-]
IsIdChar(c) == IsWord(c) \/ c = "-"

\* the pattern lit[\w-]+ matches s at position i
MatchAt(lit, s, i) ==
    /\ i + Len(lit) <= Len(s)
    /\ \A j \in 1..Len(lit) : s[i + j - 1] = lit[j]
    /\ IsIdChar(s[i + Len(lit)])

\* re.search(lit[\w-]+, s) finds a match
Search(lit, s) == \E i \in 1..Len(s) : MatchAt(lit, s, i)

MsgNotYouTube == "Not a YouTube URL"
MsgValid == "Valid"
MsgBadFormat == "Invalid YouTube URL format"

\* a slip: the host check is left out
validate_no_host_check(u) ==
    IF \E k \in 1..Len(patterns) : Search(patterns[k], u)
    THEN <<TRUE, MsgValid>>
    ELSE <<FALSE, MsgBadFormat>>

\* a slip: the /v/ pattern is left out
validate_three_patterns(u) ==
    IF ~Contains(u, S_youtube_com) /\ ~Contains(u, S_youtu_be)
    THEN <<FALSE, MsgNotYouTube>>
    ELSE IF \E k \in 1..3 : Search(patterns[k], u)
         THEN <<TRUE, MsgValid>>
         ELSE <<FALSE, MsgBadFormat>>

validate_youtube_url(u) ==
    IF ~Contains(u, S_youtube_com) /\ ~Contains(u, S_youtu_be)
    THEN <<FALSE, MsgNotYouTube>>
    ELSE IF \E k \in 1..Len(patterns) : Search(patterns[k], u)
         THEN <<TRUE, MsgValid>>
         ELSE <<FALSE, MsgBadFormat>>

----
\* download_youtube_audio: the except block that classifies the error text

E_video_unavailable == <<"V", "i", "d", "e", "o", " ", "u", "n", "a", "v", "a", "i", "l", "a", "b", "l", "e">>
E_this_video_is_unavailable == <<"T", "h", "i", "s", " ", "v", "i", "d", "e", "o", " ", "i", "s", " ", "u", "n", "a", "v", "a", "i", "l", "a", "b", "l", "e">>
E_sign_in_age == <<"S", "i", "g", "n", " ", "i", "n", " ", "t", "o", " ", "c", "o", "n", "f", "i", "r", "m", " ", "y", "o", "u", "r", " ", "a", "g", "e">>
E_age == <<"a", "g", "e">>
E_not_available == <<"T", "h", "i", "s", " ", "v", "i", "d", "e", "o", " ", "i", "s", " ", "n", "o", "t", " ", "a", "v", "a", "i", "l", "a", "b", "l", "e">>
E_invalid_url == <<"I", "n", "v", "a", "l", "i", "d", " ", "U", "R", "L">>
E_unsupported_url == <<"U", "n", "s", "u", "p", "p", "o", "r", "t", "e", "d", " ", "U", "R", "L">>
E_http_403 == <<"H", "T", "T", "P", " ", "E", "r", "r", "o", "r", " ", "4", "0", "3">>
E_forbidden == <<"F", "o", "r", "b", "i", "d", "d", "e", "n">>
E_http_429 == <<"H", "T", "T", "P", " ", "E", "r", "r", "o", "r", " ", "4", "2", "9">>
E_network == <<"n", "e", "t", "w", "o", "r", "k">>
E_connection == <<"C", "o", "n", "n", "e", "c", "t", "i", "o", "n">>

\* the user-facing messages (the leading cross mark of each is left out)
MsgUnavailable == "Error: Video is unavailable, private, or deleted. Try a different video."
MsgAge == "Error: Age-restricted video. Cannot download without authentication."
MsgRegion == "Error: Video not available in this region or on this platform."
MsgInvalidUrl == "Error: Invalid YouTube URL. Make sure it's a valid YouTube link."
MsgForbidden == "Error: Access forbidden. YouTube is blocking this request. Try updating yt-dlp or use a different video."
MsgRateLimited == "Error: Too many requests. Please wait a few minutes and try again."
MsgNetwork == "Error: Network connection issue. Check your internet."
MsgUnclassified == "Error: "
MsgNotFound == "File was downloaded but not found in expected location"
MsgConverted == "Successfully converted: "

\* error_msg[:200]
TruncLen == 200

\* None, where a file path is expected
None == <<>>

\* a message is a fixed text followed by a computed one (empty for most)
Message(text, detail) == [text |-> text, detail |-> detail]

\* (False, message, None)
Failure(text, detail) ==
    [success |-> FALSE, message |-> Message(text, detail), filepath |-> None]

\* a slip: the access-forbidden test is made before the age test
classify_error_403_first(e) ==
    IF Contains(e, E_video_unavailable) \/ Contains(e, E_this_video_is_unavailable)
    THEN Failure(MsgUnavailable, <<>>)
    ELSE IF Contains(e, E_http_403) \/ Contains(e, E_forbidden)
    THEN Failure(MsgForbidden, <<>>)
    ELSE IF Contains(e, E_sign_in_age) \/ Contains(Lower(e), E_age)
    THEN Failure(MsgAge, <<>>)
    ELSE IF Contains(e, E_not_available)
    THEN Failure(MsgRegion, <<>>)
    ELSE IF Contains(e, E_invalid_url) \/ Contains(e, E_unsupported_url)
    THEN Failure(MsgInvalidUrl, <<>>)
    ELSE IF Contains(e, E_http_429)
    THEN Failure(MsgRateLimited, <<>>)
    ELSE IF Contains(Lower(e), E_network) \/ Contains(e, E_connection)
    THEN Failure(MsgNetwork, <<>>)
    ELSE Failure(MsgUnclassified, Take(e, TruncLen))

\* a slip: only the longer of the two unavailable phrases is tested
classify_error_one_phrase(e) ==
    IF Contains(e, E_this_video_is_unavailable)
    THEN Failure(MsgUnavailable, <<>>)
    ELSE IF Contains(e, E_sign_in_age) \/ Contains(Lower(e), E_age)
    THEN Failure(MsgAge, <<>>)
    ELSE IF Contains(e, E_not_available)
    THEN Failure(MsgRegion, <<>>)
    ELSE IF Contains(e, E_invalid_url) \/ Contains(e, E_unsupported_url)
    THEN Failure(MsgInvalidUrl, <<>>)
    ELSE IF Contains(e, E_http_403) \/ Contains(e, E_forbidden)
    THEN Failure(MsgForbidden, <<>>)
    ELSE IF Contains(e, E_http_429)
    THEN Failure(MsgRateLimited, <<>>)
    ELSE IF Contains(Lower(e), E_network) \/ Contains(e, E_connection)
    THEN Failure(MsgNetwork, <<>>)
    ELSE Failure(MsgUnclassified, Take(e, TruncLen))

classify_error(e) ==
    IF Contains(e, E_video_unavailable) \/ Contains(e, E_this_video_is_unavailable)
    THEN Failure(MsgUnavailable, <<>>)
    ELSE IF Contains(e, E_sign_in_age) \/ Contains(Lower(e), E_age)
    THEN Failure(MsgAge, <<>>)
    ELSE IF Contains(e, E_not_available)
    THEN Failure(MsgRegion, <<>>)
    ELSE IF Contains(e, E_invalid_url) \/ Contains(e, E_unsupported_url)
    THEN Failure(MsgInvalidUrl, <<>>)
    ELSE IF Contains(e, E_http_403) \/ Contains(e, E_forbidden)
    THEN Failure(MsgForbidden, <<>>)
    ELSE IF Contains(e, E_http_429)
    THEN Failure(MsgRateLimited, <<>>)
    ELSE IF Contains(Lower(e), E_network) \/ Contains(e, E_connection)
    THEN Failure(MsgNetwork, <<>>)
    ELSE Failure(MsgUnclassified, Take(e, TruncLen))

----
\* The three functions, each applied to an input drawn from a bounded set

\* the characters filenames are made of
FilenameChars == {"a", "7", "_", "-", " ", "\t", ":", "/", "?", "\""}

\* the fragments URLs are made of
UrlParts ==
    << <<"h", "t", "t", "p", "s", ":", "/", "/">>,
       <<"w", "w", "w", ".">>,
       S_youtube_com,
       S_youtu_be,
       <<"/", "w", "a", "t", "c", "h", "?", "v", "=">>,
       <<"/", "e", "m", "b", "e", "d", "/">>,
       <<"/", "v", "/">>,
       <<"/">>,
       <<"d", "Q", "w", "4">>,
       <<"-", "_">>,
       <<"Q">>,
       <<"n", "o", "t", " ", "a", " ", "u", "r", "l">>,
       <<"&", "t", "=", "1">> >>

\* the fragments error texts are made of
ErrParts ==
    << E_video_unavailable,
       E_this_video_is_unavailable,
       E_sign_in_age,
       <<"w", "e", "b", "p", "a", "g", "e">>,
       <<"I", "M", "A", "G", "E">>,
       E_not_available,
       E_invalid_url,
       E_unsupported_url,
       E_http_403,
       E_forbidden,
       E_http_429,
       <<"N", "e", "t", "w", "o", "r", "k">>,
       E_connection,
       <<"E", "R", "R", "O", "R", ":", " ">>,
       Rep("z", 110) >>

\* the text the fragments ps of the table T make
Join(T, ps) == Concat([i \in DOMAIN ps |-> T[ps[i]]])

NoResult == [success |-> FALSE, message |-> Message("", <<>>), filepath |-> None]

FnIdle ==
    /\ applied = FALSE
    /\ filename = <<>> /\ cleaned = <<>>
    /\ parts = <<>> /\ url = <<>> /\ validation = <<FALSE, "">>
    /\ eparts = <<>> /\ error_msg = <<>> /\ classified = NoResult

ReqIdle ==
    /\ pc = <<>> /\ youtube_url = <<>> /\ shown = <<>> /\ calls = <<>>
    /\ caught = <<>> /\ video_title = <<>> /\ clean_title = <<>> /\ mp3_exists = <<>> /\ result = <<>>
    /\ audio_bytes = <<>> /\ reqid = <<>>
    /\ files = {} /\ dir_made = FALSE /\ moviepy = FALSE /\ nreq = 0

InitClean ==
    /\ applied = FALSE
    /\ \E n \in 0..MaxLen : filename \in [1..n -> FilenameChars]
    /\ cleaned = <<>>
    /\ parts = <<>> /\ url = <<>> /\ validation = <<FALSE, "">>
    /\ eparts = <<>> /\ error_msg = <<>> /\ classified = NoResult
    /\ ReqIdle

ApplyClean ==
    /\ ~applied
    /\ applied' = TRUE
    /\ cleaned' = clean_filename(filename)
    /\ UNCHANGED <<filename, parts, url, validation, eparts, error_msg, classified>>
    /\ UNCHANGED reqvars

SpecClean == InitClean /\ [][ApplyClean]_vars

InitValidate ==
    /\ applied = FALSE
    /\ \E n \in 0..MaxParts : parts \in [1..n -> 1..Len(UrlParts)]
    /\ url = Join(UrlParts, parts)
    /\ validation = <<FALSE, "">>
    /\ filename = <<>> /\ cleaned = <<>>
    /\ eparts = <<>> /\ error_msg = <<>> /\ classified = NoResult
    /\ ReqIdle

ApplyValidate ==
    /\ ~applied
    /\ applied' = TRUE
    /\ validation' = validate_youtube_url(url)
    /\ UNCHANGED <<filename, cleaned, parts, url, eparts, error_msg, classified>>
    /\ UNCHANGED reqvars

SpecValidate == InitValidate /\ [][ApplyValidate]_vars

InitClassify ==
    /\ applied = FALSE
    /\ \E n \in 0..MaxErrParts : eparts \in [1..n -> 1..Len(ErrParts)]
    /\ error_msg = Join(ErrParts, eparts)
    /\ classified = NoResult
    /\ filename = <<>> /\ cleaned = <<>>
    /\ parts = <<>> /\ url = <<>> /\ validation = <<FALSE, "">>
    /\ ReqIdle

ApplyClassify ==
    /\ ~applied
    /\ applied' = TRUE
    /\ classified' = classify_error(error_msg)
    /\ UNCHANGED <<filename, cleaned, parts, url, validation, eparts, error_msg>>
    /\ UNCHANGED reqvars

SpecClassify == InitClassify /\ [][ApplyClassify]_vars

----
\* main: the request one press of the convert button runs, in each session

Sessions == 1..NumSessions

\* what the user may have typed in the URL field
UrlInputs ==
    { <<>>,
      <<"n", "o", "t", " ", "a", " ", "u", "r", "l">>,
      <<"y", "o", "u", "t", "u", "b", "e", ".", "c", "o", "m", "/", "w", "a", "t", "c", "h">>,
      <<"h", "t", "t", "p", "s", ":", "/", "/", "y", "o", "u", "t", "u", ".", "b", "e", "/", "d", "Q", "w", "4">> }

\* the titles a probe may report; NoTitle is an info dict without 'title'
NoTitle == <<"\n">>
Titles == { <<"A", ":", " ", "B">>, <<"A", " ", " ", "B">>, NoTitle }

\* the texts of the errors the extraction library may raise
LibraryErrors ==
    { <<"E", "R", "R", "O", "R", ":", " ">> \o E_video_unavailable,
      <<"E", "R", "R", "O", "R", ":", " ">> \o Rep("z", 210) }

\* str(e) of the ImportError of line 206 and of the AttributeError of line 110
ImportErrorText == <<"N", "o", " ", "m", "o", "d", "u", "l", "e", " ", "n", "a", "m", "e", "d", " ", "'", "m", "o", "v", "i", "e", "p", "y", "'">>
NoneTypeErrorText == <<"'", "N", "o", "n", "e", "T", "y", "p", "e", "'", " ", "o", "b", "j", "e", "c", "t", " ", "h", "a", "s", " ", "n", "o", " ", "a", "t", "t", "r", "i", "b", "u", "t", "e", " ", "'", "g", "e", "t", "'">>

\* the except block's answer to each text that can reach it, computed once
Classified == [e \in LibraryErrors \cup {NoneTypeErrorText} |-> classify_error(e)]

MsgEmpty == "Please enter a YouTube URL"
MsgCannotAccess == "Cannot access video: "
MsgUnable == "Unable to access video. It may be private, deleted, or restricted."

NoMessage == Message("", <<>>)
NothingCaught == [by |-> "none", call |-> "none", text |-> <<>>]
DigitChars == <<"1", "2", "3", "4", "5", "6", "7", "8", "9">>

\* Path("downloads"), the extension of the converted file, the default title
S_downloads == <<"d", "o", "w", "n", "l", "o", "a", "d", "s">>
S_mp3 == <<".", "m", "p", "3">>
S_video == <<"v", "i", "d", "e", "o">>

\* a slip: the staged file is keyed by the request as well as by the title
mp3_file_per_request(s) ==
    S_downloads \o <<"/">> \o clean_title[s] \o <<"-", DigitChars[reqid[s]]>> \o S_mp3

\* output_path / f"{clean_title}.mp3"
mp3_file(s) == S_downloads \o <<"/">> \o clean_title[s] \o S_mp3

\* Path.exists
Exists(path) == \E f \in files : f.path = path

\* open(path, 'rb').read(): the bytes are named by the request that wrote them
Read(path) == (CHOOSE f \in files : f.path = path).bytes

\* the file at path as the conversion of request id leaves it
Written(path, id) == {f \in files : f.path # path} \cup {[path |-> path, bytes |-> id]}

Init ==
    /\ FnIdle
    /\ pc = [s \in Sessions |-> "idle"]
    /\ youtube_url = [s \in Sessions |-> <<>>]
    /\ shown = [s \in Sessions |-> NoMessage]
    /\ calls = [s \in Sessions |-> <<>>]
    /\ caught = [s \in Sessions |-> NothingCaught]
    /\ video_title = [s \in Sessions |-> <<>>]
    /\ clean_title = [s \in Sessions |-> <<>>]
    /\ mp3_exists = [s \in Sessions |-> FALSE]
    /\ result = [s \in Sessions |-> NoResult]
    /\ audio_bytes = [s \in Sessions |-> 0]
    /\ reqid = [s \in Sessions |-> 0]
    /\ files = {}
    /\ dir_made = FALSE
    /\ moviepy \in BOOLEAN
    /\ nreq = 0

\* the state of a session when a run of the script begins
Fresh(s) ==
    /\ calls' = [calls EXCEPT ![s] = <<>>]
    /\ caught' = [caught EXCEPT ![s] = NothingCaught]
    /\ video_title' = [video_title EXCEPT ![s] = <<>>]
    /\ clean_title' = [clean_title EXCEPT ![s] = <<>>]
    /\ mp3_exists' = [mp3_exists EXCEPT ![s] = FALSE]
    /\ result' = [result EXCEPT ![s] = NoResult]
    /\ audio_bytes' = [audio_bytes EXCEPT ![s] = 0]

\* a slip: the URL is not validated before the video is looked up
PressUnchecked(s, u) ==
    /\ pc[s] \in {"idle", "done"}
    /\ nreq < MaxRequests
    /\ nreq' = nreq + 1
    /\ reqid' = [reqid EXCEPT ![s] = nreq + 1]
    /\ youtube_url' = [youtube_url EXCEPT ![s] = u]
    /\ Fresh(s)
    /\ shown' = [shown EXCEPT ![s] = NoMessage]
    /\ pc' = [pc EXCEPT ![s] = "import"]
    /\ UNCHANGED <<files, dir_made, moviepy>>
    /\ UNCHANGED fnvars

\* the convert button is pressed with u in the URL field: lines 183-201
Press(s, u) ==
    /\ pc[s] \in {"idle", "done"}
    /\ nreq < MaxRequests
    /\ nreq' = nreq + 1
    /\ reqid' = [reqid EXCEPT ![s] = nreq + 1]
    /\ youtube_url' = [youtube_url EXCEPT ![s] = u]
    /\ Fresh(s)
    /\ IF u = <<>>
       THEN /\ shown' = [shown EXCEPT ![s] = Message(MsgEmpty, <<>>)]
            /\ pc' = [pc EXCEPT ![s] = "done"]
       ELSE IF ~validate_youtube_url(u)[1]
       THEN /\ shown' = [shown EXCEPT ![s] = Message(validate_youtube_url(u)[2], <<>>)]
            /\ pc' = [pc EXCEPT ![s] = "done"]
       ELSE /\ shown' = [shown EXCEPT ![s] = NoMessage]
            /\ pc' = [pc EXCEPT ![s] = "import"]
    /\ UNCHANGED <<files, dir_made, moviepy>>
    /\ UNCHANGED fnvars

\* from moviepy.editor import VideoFileClip, inside the try of line 205
Import(s) ==
    /\ pc[s] = "import"
    /\ IF moviepy
       THEN /\ pc' = [pc EXCEPT ![s] = "probe"]
            /\ UNCHANGED <<shown, caught>>
       ELSE /\ caught' = [caught EXCEPT ![s] =
                             [by |-> "main", call |-> "import", text |-> ImportErrorText]]
            /\ shown' = [shown EXCEPT ![s] =
                            Message(MsgCannotAccess, Take(ImportErrorText, TruncLen))]
            /\ pc' = [pc EXCEPT ![s] = "done"]
    /\ UNCHANGED <<youtube_url, calls, video_title, clean_title, mp3_exists, result,
                   audio_bytes, reqid, files, dir_made, moviepy, nreq>>
    /\ UNCHANGED fnvars

\* main's own extract_info(youtube_url, download=False): lines 214-234
MainProbe(s) ==
    /\ pc[s] = "probe"
    /\ calls' = [calls EXCEPT ![s] = Append(@, "probe")]
    /\ \/ \* the probe returns the video's info
          /\ pc' = [pc EXCEPT ![s] = "download"]
          /\ UNCHANGED <<shown, caught>>
       \/ \* the probe returns nothing
          /\ shown' = [shown EXCEPT ![s] = Message(MsgUnable, <<>>)]
          /\ pc' = [pc EXCEPT ![s] = "done"]
          /\ UNCHANGED caught
       \/ \* the probe raises
          \E e \in LibraryErrors :
              /\ caught' = [caught EXCEPT ![s] =
                               [by |-> "main", call |-> "probe", text |-> e]]
              /\ shown' = [shown EXCEPT ![s] = Message(MsgCannotAccess, Take(e, TruncLen))]
              /\ pc' = [pc EXCEPT ![s] = "done"]
    /\ UNCHANGED <<youtube_url, video_title, clean_title, mp3_exists, result,
                   audio_bytes, reqid, files, dir_made, moviepy, nreq>>
    /\ UNCHANGED fnvars

\* download_youtube_audio up to its extract_info(url, download=False):
\* lines 74-116
DownloadProbe(s) ==
    /\ pc[s] = "download"
    /\ dir_made' = TRUE
    /\ calls' = [calls EXCEPT ![s] = Append(@, "probe")]
    /\ \/ \* the probe returns the video's info
          \E t \in Titles :
              /\ video_title' = [video_title EXCEPT ![s] = IF t = NoTitle THEN S_video ELSE t]
              /\ clean_title' = [clean_title EXCEPT ![s] =
                                    clean_filename(IF t = NoTitle THEN S_video ELSE t)]
              /\ pc' = [pc EXCEPT ![s] = "convert"]
              /\ UNCHANGED <<caught, result>>
       \/ \* the probe returns nothing: info.get raises
          /\ caught' = [caught EXCEPT ![s] =
                           [by |-> "download_youtube_audio", call |-> "probe",
                            text |-> NoneTypeErrorText]]
          /\ result' = [result EXCEPT ![s] = Classified[NoneTypeErrorText]]
          /\ pc' = [pc EXCEPT ![s] = "show"]
          /\ UNCHANGED <<video_title, clean_title>>
       \/ \* the probe raises
          \E e \in LibraryErrors :
              /\ caught' = [caught EXCEPT ![s] =
                               [by |-> "download_youtube_audio", call |-> "probe", text |-> e]]
              /\ result' = [result EXCEPT ![s] = Classified[e]]
              /\ pc' = [pc EXCEPT ![s] = "show"]
              /\ UNCHANGED <<video_title, clean_title>>
    /\ UNCHANGED <<youtube_url, shown, mp3_exists, audio_bytes, reqid, files, moviepy, nreq>>
    /\ UNCHANGED fnvars

\* a slip: a conversion that raises is tried again
ConvertRetry(s) ==
    /\ pc[s] = "convert"
    /\ calls' = [calls EXCEPT ![s] = Append(@, "convert")]
    /\ \/ /\ files' = Written(mp3_file(s), reqid[s])
          /\ pc' = [pc EXCEPT ![s] = "check"]
          /\ UNCHANGED <<caught, result>>
       \/ /\ pc' = [pc EXCEPT ![s] = "check"]
          /\ UNCHANGED <<files, caught, result>>
       \/ \E e \in LibraryErrors :
              /\ caught' = [caught EXCEPT ![s] =
                               [by |-> "download_youtube_audio", call |-> "convert", text |-> e]]
              /\ IF Len(calls[s]) < 4
                 THEN UNCHANGED <<pc, result>>
                 ELSE /\ result' = [result EXCEPT ![s] = Classified[e]]
                      /\ pc' = [pc EXCEPT ![s] = "show"]
              /\ UNCHANGED files
    /\ UNCHANGED <<youtube_url, shown, video_title, clean_title, mp3_exists,
                   audio_bytes, reqid, dir_made, moviepy, nreq>>
    /\ UNCHANGED fnvars

\* ydl_download.download([url]): lines 118-120
Convert(s) ==
    /\ pc[s] = "convert"
    /\ calls' = [calls EXCEPT ![s] = Append(@, "convert")]
    /\ \/ \* the conversion writes the MP3 file named by the output template
          /\ files' = Written(mp3_file(s), reqid[s])
          /\ pc' = [pc EXCEPT ![s] = "check"]
          /\ UNCHANGED <<caught, result>>
       \/ \* the conversion returns and has left no file of that name
          /\ pc' = [pc EXCEPT ![s] = "check"]
          /\ UNCHANGED <<files, caught, result>>
       \/ \* the conversion raises
          \E e \in LibraryErrors :
              /\ caught' = [caught EXCEPT ![s] =
                               [by |-> "download_youtube_audio", call |-> "convert", text |-> e]]
              /\ result' = [result EXCEPT ![s] = Classified[e]]
              /\ pc' = [pc EXCEPT ![s] = "show"]
              /\ UNCHANGED files
    /\ UNCHANGED <<youtube_url, shown, video_title, clean_title, mp3_exists,
                   audio_bytes, reqid, dir_made, moviepy, nreq>>
    /\ UNCHANGED fnvars

\* a slip: the file is not looked for before success is returned
CheckFileUnchecked(s) ==
    /\ pc[s] = "check"
    /\ mp3_exists' = [mp3_exists EXCEPT ![s] = Exists(mp3_file(s))]
    /\ result' = [result EXCEPT ![s] =
                     [success |-> TRUE, message |-> Message(MsgConverted, clean_title[s]),
                      filepath |-> mp3_file(s)]]
    /\ pc' = [pc EXCEPT ![s] = "show"]
    /\ UNCHANGED <<youtube_url, shown, calls, caught, video_title, clean_title,
                   audio_bytes, reqid, files, dir_made, moviepy, nreq>>
    /\ UNCHANGED fnvars

\* mp3_file.exists() and the return of download_youtube_audio: lines 122-128
CheckFile(s) ==
    /\ pc[s] = "check"
    /\ mp3_exists' = [mp3_exists EXCEPT ![s] = Exists(mp3_file(s))]
    /\ result' = [result EXCEPT ![s] =
                     IF Exists(mp3_file(s))
                     THEN [success |-> TRUE,
                           message |-> Message(MsgConverted, clean_title[s]),
                           filepath |-> mp3_file(s)]
                     ELSE Failure(MsgNotFound, <<>>)]
    /\ pc' = [pc EXCEPT ![s] = "show"]
    /\ UNCHANGED <<youtube_url, shown, calls, caught, video_title, clean_title,
                   audio_bytes, reqid, files, dir_made, moviepy, nreq>>
    /\ UNCHANGED fnvars

\* main shows the result, reading the file on success: lines 243-270
ShowResult(s) ==
    /\ pc[s] = "show"
    /\ shown' = [shown EXCEPT ![s] = result[s].message]
    /\ audio_bytes' = [audio_bytes EXCEPT ![s] =
                          IF result[s].success THEN Read(result[s].filepath) ELSE 0]
    /\ pc' = [pc EXCEPT ![s] = "done"]
    /\ UNCHANGED <<youtube_url, calls, caught, video_title, clean_title, mp3_exists,
                   result, reqid, files, dir_made, moviepy, nreq>>
    /\ UNCHANGED fnvars

Next ==
    \E s \in Sessions :
        \/ \E u \in UrlInputs : Press(s, u)
        \/ Import(s)
        \/ MainProbe(s)
        \/ DownloadProbe(s)
        \/ Convert(s)
        \/ CheckFile(s)
        \/ ShowResult(s)

Spec == Init /\ [][Next]_vars

----
\* Properties of clean_filename, under SpecClean

\* p occurs in s as a substring
HasSub(s, p) ==
    \E i \in 1..Len(s) : i + Len(p) - 1 <= Len(s) /\ SubSeq(s, i, i + Len(p) - 1) = p

\* a letter, digit, underscore or hyphen
IsKept(c) == IsWord(c) \/ c = "-"

\* the letters, digits, underscores and hyphens of s, in order
Kept(s) == SelectSeq(s, IsKept)

\* there is whitespace in s after its k-th kept character and before the next
\* (k = 0: before the first; k = Len(Kept(s)): after the last)
Gap(s, k) ==
    \E i \in DOMAIN s :
        IsSpace(s[i]) /\ Cardinality({j \in 1..i : IsKept(s[j])}) = k

\* what holds of the output whether or not its ends are stripped
CleanCommon ==
    /\ \A i \in DOMAIN cleaned : IsKept(cleaned[i]) \/ cleaned[i] = " "
    /\ Kept(cleaned) = Kept(filename)
    /\ \A i \in 1..(Len(cleaned) - 1) : ~(cleaned[i] = " " /\ cleaned[i + 1] = " ")

\* C7 as stated: clean_filename removes every character outside letters,
\* digits, underscore, whitespace and hyphen, preserves every letter, digit,
\* hyphen and underscore, collapses each run of whitespace between two kept
\* characters to a single space, and preserves a space at either end of the
\* input.
C7_AsStated ==
    applied =>
        /\ CleanCommon
        /\ \A k \in 1..(Len(Kept(filename)) - 1) : Gap(cleaned, k) <=> Gap(filename, k)
        /\ (filename # <<>> /\ filename[1] = " ") => (cleaned # <<>> /\ cleaned[1] = " ")
        /\ (filename # <<>> /\ filename[Len(filename)] = " ")
               => (cleaned # <<>> /\ cleaned[Len(cleaned)] = " ")

\* C7 amended: as C7, but only the runs of whitespace between two kept
\* characters survive, each as a single space; whitespace at the two ends of
\* the result is removed by the final strip().
C7_CleanStrips ==
    applied =>
        /\ CleanCommon
        /\ \A k \in 1..(Len(Kept(filename)) - 1) : Gap(cleaned, k) <=> Gap(filename, k)
        /\ cleaned # <<>> => cleaned[1] # " " /\ cleaned[Len(cleaned)] # " "

\* punctuation has been removed, an inner tab turned into a space and a
\* leading space stripped
C7_Witness ==
    /\ applied
    /\ filename = <<" ", "a", ":", "\t", "7">>
    /\ cleaned = <<"a", " ", "7">>

\* C8: clean_filename is idempotent: cleaning a cleaned filename changes nothing.
C8_Idempotent == applied => clean_filename(cleaned) = cleaned

\* the first application changed the filename and left something to clean again
C8_Witness ==
    /\ applied
    /\ cleaned # filename
    /\ Len(cleaned) >= 2
    /\ \E i \in DOMAIN cleaned : cleaned[i] = " "

----
\* Properties of validate_youtube_url, under SpecValidate

\* C1: a string with neither "youtube.com" nor "youtu.be" in it is invalid,
\* with the reason "Not a YouTube URL".
C1_NoHostInvalid ==
    (applied /\ ~HasSub(url, S_youtube_com) /\ ~HasSub(url, S_youtu_be))
        => validation = <<FALSE, "Not a YouTube URL">>

\* "not a url" has been validated
C1_Witness ==
    /\ applied
    /\ url = <<"n", "o", "t", " ", "a", " ", "u", "r", "l">>
    /\ validation[1] = FALSE

\* the fragments that are video ids
IdParts == {k \in 1..Len(UrlParts) : UrlParts[k] # <<>> /\ \A i \in DOMAIN UrlParts[k] : IsIdChar(UrlParts[k][i])}

\* the URL has, from its i-th fragment on, one of the four accepted shapes
\* followed by a video id
ShapeAt(i) ==
    /\ i + 2 <= Len(parts)
    /\ \/ UrlParts[parts[i]] = S_youtube_com
          /\ UrlParts[parts[i + 1]] \in {<<"/", "w", "a", "t", "c", "h", "?", "v", "=">>,
                                         <<"/", "e", "m", "b", "e", "d", "/">>,
                                         <<"/", "v", "/">>}
       \/ UrlParts[parts[i]] = S_youtu_be /\ UrlParts[parts[i + 1]] = <<"/">>
    /\ parts[i + 2] \in IdParts

\* one of the four shapes, followed by at least one id character, occurs in s
ShapeIn(s) ==
    \E k \in 1..4 : \E i \in 1..Len(s) :
        /\ i + Len(patterns[k]) <= Len(s)
        /\ SubSeq(s, i, i + Len(patterns[k]) - 1) = patterns[k]
        /\ s[i + Len(patterns[k])] \in Range(UpperLetters) \cup Range(LowerLetters)
                                       \cup Digits \cup {"_", "-"}

\* C2: a URL built from one of the four accepted shapes with a non-empty video
\* id is valid; a string with a host fragment in it and none of the four shapes
\* is invalid.
C2_ShapesValid ==
    applied =>
        /\ (\E i \in 1..Len(parts) : ShapeAt(i)) => validation = <<TRUE, "Valid">>
        /\ ((HasSub(url, S_youtube_com) \/ HasSub(url, S_youtu_be)) /\ ~ShapeIn(url))
               => validation[1] = FALSE

\* a youtube.com/v/<id> URL, whose id has a hyphen and an underscore, has
\* been validated
C2_Witness ==
    /\ applied
    /\ url = S_youtube_com \o <<"/", "v", "/", "-", "_">>
    /\ validation[1] = TRUE

----
\* Properties of the error classifier, under SpecClassify

\* C10: the classification is the first test that matches, in the order
\* unavailable, age, region, malformed URL, forbidden, rate-limited, network,
\* and otherwise unclassified with the first 200 characters of the text; so a
\* text with "age" in it (in any case) and no unavailable phrase is
\* age-restricted whatever else it contains.
C10_FirstMatch ==
    applied =>
        LET e == error_msg
            unavailable == Contains(e, E_video_unavailable) \/ Contains(e, E_this_video_is_unavailable)
            age == Contains(Lower(e), E_age)
            region == Contains(e, E_not_available)
            malformed == Contains(e, E_invalid_url) \/ Contains(e, E_unsupported_url)
            forbidden == Contains(e, E_http_403) \/ Contains(e, E_forbidden)
            limited == Contains(e, E_http_429)
            network == Contains(Lower(e), E_network) \/ Contains(e, E_connection)
            text == classified.message.text
        IN  /\ classified.success = FALSE
            /\ classified.filepath = None
            /\ unavailable => text = MsgUnavailable
            /\ (~unavailable /\ age) => text = MsgAge
            /\ (~unavailable /\ ~age /\ region) => text = MsgRegion
            /\ (~unavailable /\ ~age /\ ~region /\ malformed) => text = MsgInvalidUrl
            /\ (~unavailable /\ ~age /\ ~region /\ ~malformed /\ forbidden)
                   => text = MsgForbidden
            /\ (~unavailable /\ ~age /\ ~region /\ ~malformed /\ ~forbidden /\ limited)
                   => text = MsgRateLimited
            /\ (~unavailable /\ ~age /\ ~region /\ ~malformed /\ ~forbidden /\ ~limited
                    /\ network) => text = MsgNetwork
            /\ (~unavailable /\ ~age /\ ~region /\ ~malformed /\ ~forbidden /\ ~limited
                    /\ ~network)
                   => /\ text = MsgUnclassified
                      /\ classified.message.detail = [i \in 1..(IF Len(e) < 200 THEN Len(e) ELSE 200) |-> e[i]]
            /\ text # MsgUnclassified => classified.message.detail = <<>>

\* "HTTP Error 403" followed by "webpage" has been classified age-restricted
C10_Witness ==
    /\ applied
    /\ error_msg = E_http_403 \o <<"w", "e", "b", "p", "a", "g", "e">>
    /\ classified.message.text = MsgAge


----
\* Properties of the requests, under Spec

\* u is one of the four accepted shapes, by the text of the claim
Acceptable(u) == (HasSub(u, S_youtube_com) \/ HasSub(u, S_youtu_be)) /\ ShapeIn(u)

ValidationMessages == {"Please enter a YouTube URL", "Not a YouTube URL", "Invalid YouTube URL format"}

\* C3: a request whose URL is empty or invalid ends with an error message and
\* makes no external call: no probe or convert is made before the URL has
\* passed validation.
C3_ValidatedBeforeCalls ==
    \A s \in Sessions :
        /\ calls[s] # <<>> => (youtube_url[s] # <<>> /\ Acceptable(youtube_url[s]))
        /\ (pc[s] # "idle" /\ (youtube_url[s] = <<>> \/ ~Acceptable(youtube_url[s])))
               => /\ pc[s] = "done"
                  /\ shown[s].text \in ValidationMessages
                  /\ calls[s] = <<>>

\* one session has been refused "not a url" while another has made a call
C3_Witness ==
    \E s, t \in Sessions :
        /\ pc[s] = "done"
        /\ youtube_url[s] = <<"n", "o", "t", " ", "a", " ", "u", "r", "l">>
        /\ shown[s].text = "Not a YouTube URL"
        /\ calls[s] = <<>>
        /\ calls[t] # <<>>

IsPrefix(a, b) == Len(a) <= Len(b) /\ a = SubSeq(b, 1, Len(a))

\* the request of s ran to the end of download_youtube_audio's try block
RanToCheck(s) == pc[s] \in {"show", "done"} /\ caught[s].by = "none" /\ Len(calls[s]) >= 2

\* C4 as stated: the external calls of a request are one probe followed by one
\* convert and nothing else.
C4_AsStated ==
    \A s \in Sessions :
        /\ IsPrefix(calls[s], <<"probe", "convert">>)
        /\ RanToCheck(s) => calls[s] = <<"probe", "convert">>

\* C4 amended: the external calls of a request are, in order, the probe of
\* main, the probe of download_youtube_audio and one convert, cut short by
\* the first that fails; none is made twice over and none is retried.
C4_ProbeProbeConvert ==
    \A s \in Sessions :
        /\ IsPrefix(calls[s], <<"probe", "probe", "convert">>)
        /\ RanToCheck(s) => calls[s] = <<"probe", "probe", "convert">>
        /\ (pc[s] \in {"show", "done"} /\ caught[s].call = "convert")
               => calls[s] = <<"probe", "probe", "convert">>

\* a request has succeeded after its three calls and another has ended at a
\* conversion that raised
C4_Witness ==
    \E s, t \in Sessions :
        /\ pc[s] = "done" /\ result[s].success
        /\ calls[s] = <<"probe", "probe", "convert">>
        /\ pc[t] = "done" /\ caught[t].call = "convert"

\* C5: a success of download_youtube_audio names the staging directory joined
\* with clean_filename(title) + ".mp3", a file that existed when it was looked
\* for; when the file is absent after the conversion, the result is the
\* output-file-missing failure, with no file path.
C5_SuccessNamesFile ==
    \A s \in Sessions :
        /\ result[s].success
               => /\ result[s].filepath =
                        <<"d", "o", "w", "n", "l", "o", "a", "d", "s", "/">>
                            \o clean_filename(video_title[s]) \o <<".", "m", "p", "3">>
                  /\ mp3_exists[s]
                  /\ \E f \in files : f.path = result[s].filepath
        /\ (RanToCheck(s) /\ ~mp3_exists[s])
               => /\ ~result[s].success
                  /\ result[s].filepath = None
                  /\ result[s].message.text = "File was downloaded but not found in expected location"

\* one request has succeeded for the title "A: B" and another has found no file
C5_Witness ==
    \E s, t \in Sessions :
        /\ result[s].success
        /\ video_title[s] = <<"A", ":", " ", "B">>
        /\ result[s].filepath = <<"d", "o", "w", "n", "l", "o", "a", "d", "s", "/", "A", " ", "B", ".", "m", "p", "3">>
        /\ RanToCheck(t) /\ ~mp3_exists[t] /\ ~result[t].success

\* a probe of the request of s raised a text with "Video unavailable" in it
ProbeUnavailable(s) == caught[s].call = "probe" /\ HasSub(caught[s].text, E_video_unavailable)

\* C6 as stated: when a probe raises a text with "Video unavailable" in it, the
\* request ends with the unavailable-or-private failure, with no file path, not
\* with a truncated raw error string.
C6_AsStated ==
    \A s \in Sessions :
        (pc[s] = "done" /\ ProbeUnavailable(s))
            => /\ result[s] = [success |-> FALSE,
                               message |-> [text |-> MsgUnavailable, detail |-> <<>>],
                               filepath |-> None]
               /\ shown[s].text = MsgUnavailable

\* C6 amended: when the probe made inside download_youtube_audio raises a text
\* with "Video unavailable" in it, download_youtube_audio returns the
\* unavailable-or-private failure, with no file path; when main's own probe
\* raises it, the request ends with "Cannot access video: " and the first 200
\* characters of the text, and download_youtube_audio is not called.
C6_UnavailableInDownload ==
    \A s \in Sessions :
        /\ (ProbeUnavailable(s) /\ caught[s].by = "download_youtube_audio")
               => /\ pc[s] \in {"show", "done"}
                  /\ result[s] = [success |-> FALSE,
                                  message |-> [text |-> MsgUnavailable, detail |-> <<>>],
                                  filepath |-> None]
                  /\ pc[s] = "done" => shown[s].text = MsgUnavailable
        /\ (ProbeUnavailable(s) /\ caught[s].by = "main")
               => /\ pc[s] = "done"
                  /\ shown[s].text = "Cannot access video: "
                  /\ IsPrefix(shown[s].detail, caught[s].text)
                  /\ Len(shown[s].detail) = (IF Len(caught[s].text) < 200 THEN Len(caught[s].text) ELSE 200)
                  /\ calls[s] = <<"probe">>
                  /\ result[s] = NoResult

\* the probe of download_youtube_audio has raised "ERROR: Video unavailable"
\* in one request and main's probe has raised it in another
C6_Witness ==
    \E s, t \in Sessions :
        /\ pc[s] = "done" /\ ProbeUnavailable(s) /\ caught[s].by = "download_youtube_audio"
        /\ shown[s].text = MsgUnavailable
        /\ pc[t] = "done" /\ ProbeUnavailable(t) /\ caught[t].by = "main"

\* C9: the staged file is keyed by the sanitized title alone: requests whose
\* titles sanitize to the same filename name the same path, and what a
\* successful request reads is what some request's conversion wrote there,
\* its own or another's.
C9_KeyedByTitle ==
    \A s, t \in Sessions :
        /\ (result[s].success /\ result[t].success
                /\ clean_filename(video_title[s]) = clean_filename(video_title[t]))
               => result[s].filepath = result[t].filepath
        /\ (pc[s] = "done" /\ result[s].success) => audio_bytes[s] \in 1..nreq

\* a request that returned success has read, and offers for download, the bytes
\* the conversion of another session's request wrote, the two titles differing
\* and sanitizing to the same filename
C9_Witness ==
    \E s, t \in Sessions :
        /\ s # t
        /\ pc[s] = "done" /\ result[s].success
        /\ video_title[s] # video_title[t]
        /\ clean_title[s] = clean_title[t]
        /\ audio_bytes[s] = reqid[t]
        /\ audio_bytes[s] # reqid[s]

====
